---- MODULE Spec2Model ----
(***************************************************************************)
(* SriDB storage core: the buffer pool manager (BufferPoolManager.hpp/.cpp) *)
(* and the slotted page (Page.hpp/.cpp).                                    *)
(*                                                                          *)
(* Spec       one pool over one database file: fetchPage, newPage,          *)
(*            unpinPage, flushPage, deletePage, flushAllDirtyPages, and the *)
(*            caller writing a page through a handle it holds.              *)
(* SpecReopen the same, plus destroying the pool and constructing a new one *)
(*            over the same file.                                           *)
(***************************************************************************)
EXTENDS Integers, Sequences, FiniteSets, TLC

(***************************************************************************)
(* Bounds of the model.                                                     *)
(***************************************************************************)
\* number of frames of the pool (poolSize of the constructor)
PoolSize == 2
\* fetchPage is called with ids 0..MaxPageId and with 0xFFFF; newPage is
\* called while pageIdCounter is one of these ids
MaxPageId == 1
\* fetchPage of a resident page is not called beyond this many pins
MaxPin == 2
\* the caller writes one of MaxData distinguishable page images
MaxData == 1
\* a run makes at most MaxCalls calls
MaxCalls == 7
\* size of the page buffer in the page model (4096 in the code); it is kept
\* small so that a handful of records fills a page
PAGE_SIZE == 40
\* slot directory entries the page model follows
MaxSlots == 4
\* records have lengths 0..MaxLength, half a page, or 65535
MaxLength == 2
\* records are filled from one of MaxSeed byte patterns
MaxSeed == 2
\* a run makes at most MaxPageCalls calls on the page
MaxPageCalls == 4
\* a run of the caller that refills the page makes at most MaxRefillCalls
MaxRefillCalls == 7

(***************************************************************************)
(* Program constants.                                                       *)
(***************************************************************************)
INVALID_PAGE_ID == 65535

INVALID_FRAME_ID == 65535

\* page_id_t is uint16_t: pageIdCounter++ wraps modulo 2^16
PageIdModulus == 65536

\* uint16_t arithmetic wraps modulo 2^16
Uint16Modulus == 65536

\* the largest uint16_t, the largest length insertRecord can be given
MaxUint16 == 65535

\* sizeof(PageHeader): three uint16_t
SizeOfPageHeader == 6

\* sizeof(Slot): two uint16_t, a bool and a byte of padding
SizeOfSlot == 6

FrameIds == 0 .. (PoolSize - 1)

PageIds == (0 .. MaxPageId) \cup {INVALID_PAGE_ID}

(***************************************************************************)
(* Page images as the pool sees them.  The pool never interprets the 4096   *)
(* bytes; it only resets, copies, reads and writes them:                    *)
(*   EmptyImage  the image resetMemory() leaves (header of an empty page),  *)
(*   ZeroImage   4096 zero bytes (what a hole of the file reads as),        *)
(*   Data(n)     images the caller produced through a handle.               *)
(***************************************************************************)
EmptyImage == <<"empty", 0>>

ZeroImage == <<"zero", 0>>

Data(n) == <<"data", n>>

\* no image: the value of a history entry that records nothing
NoImage == <<"none", 0>>

PageImages == {EmptyImage, ZeroImage} \cup {Data(n) : n \in 1 .. MaxData}

\* Page::Page / Page::resetMemory: the empty image and page_id = INVALID
resetMemory == [bytes |-> EmptyImage, page_id |-> INVALID_PAGE_ID]

\* Page::setPageId
setPageId(page, id) == [page EXCEPT !.page_id = id]

\* struct Frame after frames.resize(pool_size): value-initialised
NewFrame == [page_id |-> INVALID_PAGE_ID, page |-> resetMemory,
             pin_count |-> 0, is_dirty |-> FALSE]

\* What a call returned: which call it was, whether it succeeded (a non-null
\* Page*, or true), the page id it was about (for a failed call: none, the
\* call left nothing behind), whether fetchPage found the page resident, the
\* frame evictPage chose during the call, and the is_dirty argument of a
\* successful unpinPage.
NoReturn == [op |-> "none", ok |-> FALSE, page_id |-> INVALID_PAGE_ID,
             hit |-> FALSE, evicted |-> INVALID_FRAME_ID, is_dirty |-> FALSE]

VARIABLES
  frames,        \* std::vector<Frame>
  page_table,    \* std::unordered_map<page_id_t, frame_id_t>
  free_frames,   \* std::list<frame_id_t>
  lru_list,      \* std::list<frame_id_t>, oldest first
  lru_iterator,  \* keys of the frame -> list-iterator map
  db_file,       \* the database file: is it open, its length in pages, its pages
  pageIdCounter, \* static page_id_t BufferPoolManager::pageIdCounter
  alive,         \* a BufferPoolManager object exists
  calls,         \* number of calls made so far
  ret,           \* what the last public call returned
  hist,          \* history of the calls (used only to state the claims)
  slottedPage,   \* a Page object: header, slot directory, record bytes
  pageRet,       \* what the last call on the Page returned
  pageHist,      \* history of the Page calls (used only to state the claims)
  threads        \* the threads calling the pool: where each is in its call

poolVars == <<frames, page_table, free_frames, lru_list, lru_iterator, db_file,
              pageIdCounter, alive, ret, hist>>

pageVars == <<slottedPage, pageRet, pageHist>>

vars == <<frames, page_table, free_frames, lru_list, lru_iterator, db_file,
          pageIdCounter, alive, calls, ret, hist, slottedPage, pageRet,
          pageHist, threads>>

(***************************************************************************)
(* Sequence helpers (std::list operations).                                 *)
(***************************************************************************)
SeqRemove(s, x) == SelectSeq(s, LAMBDA y : y # x)

SeqContains(s, x) == \E i \in 1 .. Len(s) : s[i] = x

MapErase(m, k) == [x \in (DOMAIN m) \ {k} |-> m[x]]

MapPut(m, k, v) == [x \in (DOMAIN m) \cup {k} |-> IF x = k THEN v ELSE m[x]]

Max(a, b) == IF a >= b THEN a ELSE b

\* the members of the pool as one record, threaded through the private helpers
Pool == [frames |-> frames, page_table |-> page_table,
         free_frames |-> free_frames, lru_list |-> lru_list,
         lru_iterator |-> lru_iterator, db_file |-> db_file]

(***************************************************************************)
(* Disk I/O.                                                                *)
(***************************************************************************)
\* BufferPoolManager::readPageFromDisk: the bytes at page_id * PAGE_SIZE; a
\* read that does not deliver PAGE_SIZE bytes (past the end of the file)
\* resets the page.  Inside the file, a page never written reads as zeros.
readPageFromDisk(file, page_id, page) ==
  IF ~file.open THEN page
  ELSE IF page_id + 1 <= file.size
       THEN [bytes |-> file.data[page_id], page_id |-> page_id]
       ELSE setPageId(resetMemory, page_id)

\* BufferPoolManager::writePageToDisk: seekp, write PAGE_SIZE bytes, flush
writePageToDisk(file, page_id, page) ==
  IF ~file.open THEN file
  ELSE [file EXCEPT !.data[page_id] = page.bytes,
                    !.size = Max(file.size, page_id + 1)]

writeSucceeds(file) == file.open

(***************************************************************************)
(* LRU bookkeeping.                                                         *)
(***************************************************************************)
\* updateLRU that leaves a frame already listed where it is
updateLRUKeepPlace(P, frame_id) ==
  [P EXCEPT !.lru_list = IF frame_id \in P.lru_iterator THEN @
                         ELSE Append(@, frame_id),
            !.lru_iterator = @ \cup {frame_id}]

\* BufferPoolManager::updateLRU
updateLRU(P, frame_id) ==
  [P EXCEPT !.lru_list = Append(IF frame_id \in P.lru_iterator
                                THEN SeqRemove(@, frame_id) ELSE @, frame_id),
            !.lru_iterator = @ \cup {frame_id}]

\* BufferPoolManager::removeFromLRU
removeFromLRU(P, frame_id) ==
  IF frame_id \in P.lru_iterator
  THEN [P EXCEPT !.lru_list = SeqRemove(@, frame_id),
                 !.lru_iterator = @ \ {frame_id}]
  ELSE P

\* the indices of lru_list whose frame has pin_count == 0
idleIndices(P) ==
  {i \in 1 .. Len(P.lru_list) : P.frames[P.lru_list[i]].pin_count = 0}

minIndex(S) == CHOOSE i \in S : \A j \in S : i <= j

\* evictCandidate without the pin_count test: the head of lru_list
evictCandidateAnyPin(P) ==
  IF P.lru_list = << >> THEN INVALID_FRAME_ID ELSE Head(P.lru_list)

\* the scan of evictPage: the first frame of lru_list with pin_count == 0
evictCandidate(P) ==
  IF idleIndices(P) = {} THEN INVALID_FRAME_ID
  ELSE P.lru_list[minIndex(idleIndices(P))]

\* evictPage, inside the scan: if (frame.is_dirty) writePageToDisk(...)
writeBackIfDirty(P, f) ==
  IF P.frames[f].is_dirty
  THEN [P EXCEPT !.db_file = writePageToDisk(@, P.frames[f].page_id,
                                             P.frames[f].page)]
  ELSE P

\* evictPage, after the scan found evictFrameId
evictFrame(P, evictFrameId) ==
  [removeFromLRU(writeBackIfDirty(P, evictFrameId), evictFrameId) EXCEPT
     !.page_table = MapErase(@, P.frames[evictFrameId].page_id),
     !.free_frames = Append(@, evictFrameId),
     !.frames[evictFrameId].page_id = INVALID_PAGE_ID]

evictWith(P, evictFrameId) ==
  IF evictFrameId = INVALID_FRAME_ID
  THEN [ok |-> FALSE, victim |-> INVALID_FRAME_ID, pool |-> P]
  ELSE [ok |-> TRUE, victim |-> evictFrameId,
        pool |-> evictFrame(P, evictFrameId)]

\* BufferPoolManager::evictPage
evictPage(P) == evictWith(P, evictCandidate(P))

acquireAfter(e) ==
  IF ~e.ok \/ e.pool.free_frames = << >> THEN [e EXCEPT !.ok = FALSE] ELSE e

\* acquireFrame that gives up without trying to evict
acquireFrameNoEvict(P) ==
  IF P.free_frames = << >>
  THEN [ok |-> FALSE, victim |-> INVALID_FRAME_ID, pool |-> P]
  ELSE [ok |-> TRUE, victim |-> INVALID_FRAME_ID, pool |-> P]

\* the frame acquisition common to fetchPage and newPage:
\*   if (free_frames.empty() && !evictPage()) return nullptr;
\*   if (free_frames.empty()) return nullptr;
acquireFrame(P) ==
  IF P.free_frames = << >> THEN acquireAfter(evictPage(P))
  ELSE [ok |-> TRUE, victim |-> INVALID_FRAME_ID, pool |-> P]

\* pop the front of free_frames, initialise the frame, update page table and LRU
installFrame(P, availableFrameId, frame) ==
  updateLRU([P EXCEPT !.free_frames = Tail(@),
                      !.frames[availableFrameId] = frame,
                      !.page_table = MapPut(@, frame.page_id, availableFrameId)],
            availableFrameId)

(***************************************************************************)
(* Public operations, as functions from the pool to the pool and a result.  *)
(***************************************************************************)
\* fetchPage, page resident: pin_count++, updateLRU
fetchHit(P, f) ==
  [ok |-> TRUE, frame |-> f, hit |-> TRUE, evicted |-> INVALID_FRAME_ID,
   pool |-> updateLRU([P EXCEPT !.frames[f].pin_count = @ + 1], f)]

\* fetchPage, page not resident, after the frame acquisition
fetchMiss(a, page_id) ==
  IF ~a.ok
  THEN [ok |-> FALSE, frame |-> INVALID_FRAME_ID, hit |-> FALSE,
        evicted |-> a.victim, pool |-> a.pool]
  ELSE [ok |-> TRUE, frame |-> Head(a.pool.free_frames), hit |-> FALSE,
        evicted |-> a.victim,
        pool |-> installFrame(a.pool, Head(a.pool.free_frames),
                   [page_id |-> page_id,
                    page |-> readPageFromDisk(a.pool.db_file, page_id,
                               a.pool.frames[Head(a.pool.free_frames)].page),
                    pin_count |-> 1, is_dirty |-> FALSE])]

\* BufferPoolManager::fetchPage
fetchPage(P, page_id) ==
  IF page_id \in DOMAIN P.page_table
  THEN fetchHit(P, P.page_table[page_id])
  ELSE fetchMiss(acquireFrame(P), page_id)

\* newPage after the frame acquisition; counter is pageIdCounter before the call
newPageIn(a, counter) ==
  IF ~a.ok
  THEN [ok |-> FALSE, frame |-> INVALID_FRAME_ID, page_id |-> INVALID_PAGE_ID,
        evicted |-> a.victim, counter |-> counter, pool |-> a.pool]
  ELSE [ok |-> TRUE, frame |-> Head(a.pool.free_frames), page_id |-> counter,
        evicted |-> a.victim, counter |-> (counter + 1) % PageIdModulus,
        pool |-> installFrame(a.pool, Head(a.pool.free_frames),
                   [page_id |-> counter,
                    page |-> setPageId(resetMemory, counter),
                    pin_count |-> 1, is_dirty |-> TRUE])]

\* BufferPoolManager::newPage
newPage(P, counter) == newPageIn(acquireFrame(P), counter)

\* unpinFrame that stores the caller's flag instead of OR-ing it in
unpinFrameOverwrite(P, f, is_dirty) ==
  IF P.frames[f].pin_count <= 0
  THEN [ok |-> FALSE, pool |-> P]
  ELSE [ok |-> TRUE,
        pool |-> [P EXCEPT !.frames[f].pin_count = @ - 1,
                           !.frames[f].is_dirty = is_dirty]]

\* unpinFrame without the test of pin_count
unpinFrameUnchecked(P, f, is_dirty) ==
  [ok |-> TRUE,
   pool |-> [P EXCEPT !.frames[f].pin_count = @ - 1,
                      !.frames[f].is_dirty = IF is_dirty THEN is_dirty ELSE @]]

\* unpinPage on the frame the page table names
unpinFrame(P, f, is_dirty) ==
  IF P.frames[f].pin_count <= 0
  THEN [ok |-> FALSE, pool |-> P]
  ELSE [ok |-> TRUE,
        pool |-> [P EXCEPT !.frames[f].pin_count = @ - 1,
                           !.frames[f].is_dirty = IF is_dirty THEN is_dirty ELSE @]]

\* BufferPoolManager::unpinPage
unpinPage(P, page_id, is_dirty) ==
  IF page_id \in DOMAIN P.page_table
  THEN unpinFrame(P, P.page_table[page_id], is_dirty)
  ELSE [ok |-> FALSE, pool |-> P]

\* flushFrame clearing the flag of a dirty frame without writing the page
flushFrameNoWrite(P, page_id, f) ==
  [ok |-> TRUE, pool |-> [P EXCEPT !.frames[f].is_dirty = FALSE]]

flushFrame(P, page_id, f) ==
  IF P.frames[f].is_dirty
  THEN [ok |-> writeSucceeds(P.db_file),
        pool |-> [P EXCEPT
           !.db_file = writePageToDisk(@, page_id, P.frames[f].page),
           !.frames[f].is_dirty = IF writeSucceeds(P.db_file) THEN FALSE ELSE @]]
  ELSE [ok |-> TRUE, pool |-> P]

\* BufferPoolManager::flushPage
flushPage(P, page_id) ==
  IF page_id \in DOMAIN P.page_table
  THEN flushFrame(P, page_id, P.page_table[page_id])
  ELSE [ok |-> FALSE, pool |-> P]

\* deleteFrame returning the frame to the free list with its dirty flag
deleteFrameKeepDirty(P, page_id, frameId) ==
  [P EXCEPT
     !.db_file = IF P.frames[frameId].is_dirty
                 THEN writePageToDisk(@, page_id, P.frames[frameId].page)
                 ELSE @,
     !.frames[frameId].page_id = INVALID_PAGE_ID,
     !.frames[frameId].pin_count = 0,
     !.free_frames = Append(@, frameId),
     !.page_table = MapErase(@, page_id),
     !.lru_list = SeqRemove(@, frameId),
     !.lru_iterator = @ \ {frameId}]

\* deleteFrame dropping the frame without writing a dirty page
deleteFrameNoWrite(P, page_id, frameId) ==
  [P EXCEPT
     !.frames[frameId].page_id = INVALID_PAGE_ID,
     !.frames[frameId].pin_count = 0,
     !.frames[frameId].is_dirty = FALSE,
     !.free_frames = Append(@, frameId),
     !.page_table = MapErase(@, page_id),
     !.lru_list = SeqRemove(@, frameId),
     !.lru_iterator = @ \ {frameId}]

deleteFrame(P, page_id, frameId) ==
  [P EXCEPT
     !.db_file = IF P.frames[frameId].is_dirty
                 THEN writePageToDisk(@, page_id, P.frames[frameId].page)
                 ELSE @,
     !.frames[frameId].page_id = INVALID_PAGE_ID,
     !.frames[frameId].pin_count = 0,
     !.frames[frameId].is_dirty = FALSE,
     !.free_frames = Append(@, frameId),
     !.page_table = MapErase(@, page_id),
     !.lru_list = SeqRemove(@, frameId),
     !.lru_iterator = @ \ {frameId}]

\* BufferPoolManager::deletePage
deletePage(P, page_id) ==
  IF page_id \in DOMAIN P.page_table
  THEN IF P.frames[P.page_table[page_id]].pin_count = 0
       THEN [ok |-> TRUE, pool |-> deleteFrame(P, page_id, P.page_table[page_id])]
       ELSE [ok |-> FALSE, pool |-> P]
  ELSE [ok |-> FALSE, pool |-> P]

\* flushIfDirty that also drops the pins of the frame it writes
flushIfDirtyUnpinned(P, i) ==
  IF P.frames[i].page_id # INVALID_PAGE_ID /\ P.frames[i].is_dirty
  THEN [P EXCEPT
          !.db_file = writePageToDisk(@, P.frames[i].page_id, P.frames[i].page),
          !.frames[i].is_dirty = FALSE,
          !.frames[i].pin_count = 0]
  ELSE P

\* the body of the loop of flushAllDirtyPages and of flushAllPages
flushIfDirty(P, i) ==
  IF P.frames[i].page_id # INVALID_PAGE_ID /\ P.frames[i].is_dirty
  THEN [P EXCEPT
          !.db_file = writePageToDisk(@, P.frames[i].page_id, P.frames[i].page),
          !.frames[i].is_dirty = FALSE]
  ELSE P

\* for (auto &frame : frames), from frame i on
RECURSIVE flushFrames(_, _)
flushFrames(P, i) ==
  IF i >= PoolSize THEN P ELSE flushFrames(flushIfDirty(P, i), i + 1)

\* BufferPoolManager::flushAllDirtyPages
flushAllDirtyPages(P) == flushFrames(P, 0)

\* BufferPoolManager::flushAllPages (private, called by the destructor)
flushAllPages(P) == flushFrames(P, 0)

(***************************************************************************)
(* History of the calls.  None of it is read by the operations above.       *)
(*   lastDirty[p]  the image page p had at its latest successful            *)
(*                 unpinPage(p, true); NoImage before that and while a       *)
(*                 handle has modified p since                              *)
(*   touchOrder    the frames in use, least recently touched first, a touch *)
(*                 being a successful fetchPage or newPage                  *)
(*   evictSkipped  the last eviction passed over a frame touched longer ago  *)
(*                 than its victim                                          *)
(*   netPins[p]    successful fetchPage/newPage returning p minus           *)
(*                 successful unpinPage(p, _)                               *)
(*   installedDirty[f], unpinOr[f], unpinned[f]                             *)
(*                 the dirty flag frame f got when it was installed or last *)
(*                 flushed; the OR of the is_dirty arguments of the         *)
(*                 successful unpins since; whether there was one           *)
(*   persisted[p]  the image page p had in memory when the previous pool    *)
(*                 was destroyed with p resident and dirty (NoImage          *)
(*                 otherwise, and once this pool has installed p)           *)
(*   newPages      the successful newPage calls of this pool                *)
(*   maxNewId      the largest page id a newPage of this pool has returned, *)
(*                 -1 before the first                                      *)
(***************************************************************************)
NoHist == [lastDirty |-> [p \in PageIds |-> NoImage],
           touchOrder |-> << >>,
           evictSkipped |-> FALSE,
           netPins |-> [p \in PageIds |-> 0],
           installedDirty |-> [f \in FrameIds |-> FALSE],
           unpinOr |-> [f \in FrameIds |-> FALSE],
           unpinned |-> [f \in FrameIds |-> FALSE],
           persisted |-> [p \in PageIds |-> NoImage],
           newPages |-> 0,
           maxNewId |-> -1]

\* frames not on the free list
InUse(P) == {f \in FrameIds : ~SeqContains(P.free_frames, f)}

\* frames that hold page p
Holding(p) == {f \in InUse(Pool) : frames[f].page_id = p}

Touch(order, f) == Append(SeqRemove(order, f), f)

\* a frame returned to the free list drops out of the touch order
Untouch(order, P) == SelectSeq(order, LAMBDA f : f \in InUse(P))

\* the frames whose dirty flag a flush has just cleared
Cleared(before, after) ==
  {f \in FrameIds : before.frames[f].is_dirty /\ ~after.frames[f].is_dirty}

\* the dirty flag of every frame in the set starts over
StartOver(h, cleared) ==
  [h EXCEPT
     !.installedDirty = [f \in FrameIds |-> IF f \in cleared THEN FALSE ELSE @[f]],
     !.unpinOr = [f \in FrameIds |-> IF f \in cleared THEN FALSE ELSE @[f]],
     !.unpinned = [f \in FrameIds |-> IF f \in cleared THEN FALSE ELSE @[f]]]

AfterFlush(h, before, after) == StartOver(h, Cleared(before, after))

\* frame f has just been installed with the given dirty flag; victim is the
\* frame evicted for it, if any
AfterInstall(h, P, f, page_id, dirty, victim) ==
  [h EXCEPT !.touchOrder = Touch(Untouch(@, P), f),
            !.evictSkipped = IF victim = INVALID_FRAME_ID THEN @
                             ELSE Head(h.touchOrder) # victim,
            !.netPins[page_id] = @ + 1,
            !.installedDirty[f] = dirty,
            !.unpinOr[f] = FALSE,
            !.unpinned[f] = FALSE,
            !.persisted[page_id] = NoImage]

AfterHit(h, f, page_id) ==
  [h EXCEPT !.touchOrder = Touch(@, f), !.netPins[page_id] = @ + 1]

AfterUnpin(h, f, page_id, is_dirty, image) ==
  [h EXCEPT !.netPins[page_id] = @ - 1,
            !.unpinOr[f] = @ \/ is_dirty,
            !.unpinned[f] = TRUE,
            !.lastDirty[page_id] = IF is_dirty THEN image ELSE @]

(***************************************************************************)
(* The slotted page (Page.cpp).  A Page is its buffer, byte by byte: the    *)
(* header, the slot directory and the records are read from and stored to   *)
(* the bytes as the code does through its PageHeader* and Slot* casts, so   *)
(* bytes a record left behind are what a slot later placed over them reads. *)
(* fault tells whether a call has read or written outside the buffer.       *)
(***************************************************************************)
u16(n) == (n + Uint16Modulus) % Uint16Modulus

SlotNums == 0 .. (MaxSlots - 1)

Offsets == 0 .. (PAGE_SIZE - 1)

Seeds == 1 .. MaxSeed

Lengths == (0 .. MaxLength) \cup {PAGE_SIZE \div 2, MaxUint16}

\* byte k of the caller's record filled from pattern seed
dataByte(seed, k) == 16 * seed + (k % 16)

\* a byte read from outside the buffer
UnknownByte == -1

\* a uint16_t stored at offset at (little endian)
putU16(buffer, at, v) ==
  [buffer EXCEPT ![at] = v % 256, ![at + 1] = v \div 256]

\* a uint16_t read at offset at
getU16(buffer, at) == buffer[at] + 256 * buffer[at + 1]

\* getHeader()->num_of_slots
num_of_slots(P) == getU16(P.buffer, 0)

\* getHeader()->free_space_start
free_space_start(P) == getU16(P.buffer, 2)

\* getHeader()->free_space_end
free_space_end(P) == getU16(P.buffer, 4)

\* Page::getSlot, as an offset into the buffer
getSlot(slot_num) == SizeOfPageHeader + slot_num * SizeOfSlot

\* getSlot(slot_num)->offset
slotOffset(P, slot_num) == getU16(P.buffer, getSlot(slot_num))

\* getSlot(slot_num)->length
slotLength(P, slot_num) == getU16(P.buffer, getSlot(slot_num) + 2)

\* the byte of getSlot(slot_num)->isDeleted
deletedByte(P, slot_num) == P.buffer[getSlot(slot_num) + 4]

\* getSlot(slot_num)->isDeleted read as a bool: a byte that is neither 0 nor
\* 1 is not a bool value, and reads as oddBool
isDeleted(P, slot_num, oddBool) ==
  IF deletedByte(P, slot_num) = 0 THEN FALSE
  ELSE IF deletedByte(P, slot_num) = 1 THEN TRUE
  ELSE oddBool

\* the slot directory holds a byte that is not a bool value
OddBools(P) ==
  IF \E i \in SlotNums : deletedByte(P, i) \notin {0, 1}
  THEN BOOLEAN ELSE {FALSE}

\* Page::resetMemory
EmptyPage ==
  [buffer |-> putU16(putU16([o \in Offsets |-> 0], 2, SizeOfPageHeader),
                     4, PAGE_SIZE),
   fault |-> "none"]

\* memcpy(buffer + dest, data, length): the bytes that land in the buffer
memcpy(buffer, dest, seed, length) ==
  [o \in Offsets |-> IF dest <= o /\ o < dest + length
                     THEN dataByte(seed, o - dest) ELSE buffer[o]]

\* memmove(buffer + dest, buffer + src, length): the bytes that land in the
\* buffer
memmove(buffer, dest, src, length) ==
  [o \in Offsets |-> IF dest <= o /\ o < dest + length
                     THEN IF src + (o - dest) < PAGE_SIZE
                          THEN buffer[src + (o - dest)] ELSE UnknownByte
                     ELSE buffer[o]]

\* *to = *from for two slots of the directory
copySlot(buffer, to, from) ==
  [o \in Offsets |-> IF getSlot(to) <= o /\ o < getSlot(to) + SizeOfSlot
                     THEN buffer[getSlot(from) + (o - getSlot(to))]
                     ELSE buffer[o]]

\* has an access of length bytes at offset at left the buffer
Overrun(fault, at, length) ==
  IF at + length > PAGE_SIZE THEN "overrun" ELSE fault

\* Page::insertRecord after new_record_start and slot_array_end are computed
insertAt(P, n, seed, length, new_record_start, slot_array_end) ==
  IF slot_array_end >= new_record_start
  THEN [ok |-> FALSE, page |-> P]
  ELSE [ok |-> TRUE,
        page |->
          [buffer |->
             putU16(putU16(putU16(putU16(putU16(
               memcpy(P.buffer, new_record_start, seed, length),
               getSlot(n) + 2, length),
               getSlot(n), new_record_start),
               0, u16(n + 1)),
               2, slot_array_end),
               4, new_record_start),
           fault |-> Overrun(P.fault, new_record_start, length)]]

\* Page::insertRecord
insertRecord(P, seed, length) ==
  insertAt(P, num_of_slots(P), seed, length, u16(free_space_end(P) - length),
           u16(SizeOfPageHeader + (num_of_slots(P) + 1) * SizeOfSlot))

\* Page::getRecord: the offset the returned pointer has in the buffer, or
\* -1 for nullptr
getRecord(P, slot_num, oddBool) ==
  IF slot_num >= num_of_slots(P) THEN -1
  ELSE IF isDeleted(P, slot_num, oddBool) THEN -1
  ELSE slotOffset(P, slot_num)

\* Page::deleteRecord without the test for a slot that is deleted already
deleteRecordAgain(P, slot_num, oddBool) ==
  IF slot_num >= num_of_slots(P) THEN [ok |-> FALSE, page |-> P]
  ELSE [ok |-> TRUE,
        page |-> [P EXCEPT !.buffer[getSlot(slot_num) + 4] = 1]]

\* Page::deleteRecord
deleteRecord(P, slot_num, oddBool) ==
  IF slot_num >= num_of_slots(P) THEN [ok |-> FALSE, page |-> P]
  ELSE IF isDeleted(P, slot_num, oddBool) THEN [ok |-> FALSE, page |-> P]
  ELSE [ok |-> TRUE,
        page |-> [P EXCEPT !.buffer[getSlot(slot_num) + 4] = 1]]

\* Page::getNumberOfRecords
getNumberOfRecords(P, oddBool) ==
  Cardinality({i \in SlotNums :
                 i < num_of_slots(P) /\ ~isDeleted(P, i, oddBool)})

\* Page::updateRecord, the record grows: after new_free_space_start and
\* new_slot_offset are computed
updateGrow(P, n, slot_num, seed, length, new_free_space_start, new_slot_offset) ==
  IF new_slot_offset >= new_free_space_start
  THEN [ok |-> FALSE, page |-> P]
  ELSE [ok |-> TRUE,
        page |->
          [buffer |->
             putU16(putU16(putU16(
               memcpy(putU16([copySlot(P.buffer, n, slot_num)
                                EXCEPT ![getSlot(n) + 4] = 1],
                             0, u16(n + 1)),
                      new_free_space_start, seed, length),
               getSlot(slot_num), new_free_space_start),
               getSlot(slot_num) + 2, u16(length)),
               4, new_free_space_start),
           fault |-> Overrun(P.fault, new_free_space_start, length)]]

\* Page::updateRecord
updateRecord(P, slot_num, seed, length, oddBool) ==
  IF slot_num >= num_of_slots(P) THEN [ok |-> FALSE, page |-> P]
  ELSE IF isDeleted(P, slot_num, oddBool) THEN [ok |-> FALSE, page |-> P]
  ELSE IF slotLength(P, slot_num) >= length
  THEN [ok |-> TRUE,
        page |-> [buffer |-> memcpy(P.buffer, slotOffset(P, slot_num), seed,
                                    length),
                  fault |-> Overrun(P.fault, slotOffset(P, slot_num), length)]]
  ELSE updateGrow(P, num_of_slots(P), slot_num, seed, length,
                  u16(free_space_end(P) - length),
                  u16(SizeOfPageHeader + (num_of_slots(P) + 1) * SizeOfSlot))

\* the orders std::sort may leave slotArray in: slot numbers by offset, from
\* highest to lowest, slots with equal offsets in any order
SortedOrders(P) ==
  {order \in [1 .. num_of_slots(P) -> 0 .. (num_of_slots(P) - 1)] :
     /\ \A i, j \in 1 .. num_of_slots(P) : i # j => order[i] # order[j]
     /\ \A i, j \in 1 .. num_of_slots(P) :
          i < j => slotOffset(P, order[i]) >= slotOffset(P, order[j])}

\* Page::compactPage, first loop, one record that is not deleted
moveRecord(P, slot_num, newSlotOffset) ==
  [buffer |-> putU16(memmove(P.buffer, newSlotOffset, slotOffset(P, slot_num),
                             slotLength(P, slot_num)),
                     getSlot(slot_num), newSlotOffset),
   fault |-> Overrun(Overrun(P.fault, newSlotOffset, slotLength(P, slot_num)),
                     slotOffset(P, slot_num), slotLength(P, slot_num))]

RECURSIVE moveRecords(_, _, _, _, _, _)
\* Page::compactPage, first loop, from element i of slotArray on
moveRecords(P, order, i, cummulative_gap, lastOffset, oddBool) ==
  IF i > Len(order) THEN [page |-> P, lastOffset |-> lastOffset]
  ELSE IF isDeleted(P, order[i], oddBool)
  THEN moveRecords(P, order, i + 1,
                   cummulative_gap + slotLength(P, order[i]), lastOffset,
                   oddBool)
  ELSE moveRecords(moveRecord(P, order[i],
                              u16(slotOffset(P, order[i]) + cummulative_gap)),
                   order, i + 1, cummulative_gap,
                   u16(slotOffset(P, order[i]) + cummulative_gap), oddBool)

RECURSIVE moveSlots(_, _, _, _)
\* Page::compactPage, second loop, from element i of slotArray on: the slot
\* is read through the pointer taken before the loops, from the directory as
\* it is now
moveSlots(P, order, i, oddBool) ==
  IF i > Len(order) THEN P
  ELSE IF isDeleted(P, order[i], oddBool)
  THEN moveSlots(P, order, i + 1, oddBool)
  ELSE moveSlots([P EXCEPT !.buffer =
                     putU16(copySlot(@, num_of_slots(P), order[i]),
                            0, u16(num_of_slots(P) + 1))],
                 order, i + 1, oddBool)

\* Page::compactPage, the header update
compactHeader(P, lastOffset) ==
  [P EXCEPT !.buffer =
     putU16(putU16(@, 2, u16(SizeOfPageHeader + num_of_slots(P) * SizeOfSlot)),
            4, lastOffset)]

\* Page::compactPage after the first loop
compactMoved(m, order, oddBoolSlots) ==
  compactHeader(moveSlots([m.page EXCEPT !.buffer = putU16(@, 0, 0)],
                          order, 1, oddBoolSlots),
                m.lastOffset)

\* Page::compactPage, with slotArray sorted into order.  The first loop
\* tests isDeleted and the second !isDeleted: a byte that is not a bool
\* value reads as oddBool in the first and as oddBoolSlots in the second
\* (a build that tests the byte against 0 in one and flips its low bit in
\* the other takes such a slot for deleted in the first loop and for not
\* deleted in the second).
compactPage(P, order, oddBool, oddBoolSlots) ==
  compactMoved(moveRecords(P, order, 1, 0, u16(PAGE_SIZE), oddBool), order,
               oddBoolSlots)

\* Page::getContiguousFreeSpace
getContiguousFreeSpace(P) == u16(free_space_end(P) - free_space_end(P))

RECURSIVE deletedLength(_, _, _, _)
\* Page::getTotalFreeSpace, the loop from slot i on
deletedLength(P, i, total, oddBool) ==
  IF i >= num_of_slots(P) THEN total
  ELSE deletedLength(P, i + 1,
                     IF isDeleted(P, i, oddBool)
                     THEN u16(total + slotLength(P, i)) ELSE total,
                     oddBool)

\* Page::getTotalFreeSpace
getTotalFreeSpace(P, oddBool) ==
  deletedLength(P, 0, u16(free_space_end(P) - free_space_end(P)), oddBool)

\* Page::insertRecordSmart after the first insertRecord
insertSmartAfter(r, P, seed, length, order, oddBool, oddBoolSlots) ==
  IF r.ok THEN [ok |-> TRUE, compacted |-> FALSE, page |-> r.page]
  ELSE IF u16(length + SizeOfSlot) > getTotalFreeSpace(P, oddBool)
  THEN [ok |-> FALSE, compacted |-> FALSE, page |-> P]
  ELSE [ok |-> insertRecord(compactPage(P, order, oddBool, oddBoolSlots),
                            seed, length).ok,
        compacted |-> TRUE,
        page |-> insertRecord(compactPage(P, order, oddBool, oddBoolSlots),
                              seed, length).page]

\* Page::insertRecordSmart
insertRecordSmart(P, seed, length, order, oddBool, oddBoolSlots) ==
  insertSmartAfter(insertRecord(P, seed, length), P, seed, length, order,
                   oddBool, oddBoolSlots)

RECURSIVE tombstoneCount(_, _, _, _)
\* Page::needsCompaction, the loop from slot i on
tombstoneCount(P, i, tombstone_count, oddBool) ==
  IF i >= num_of_slots(P) THEN tombstone_count
  ELSE tombstoneCount(P, i + 1,
                      IF isDeleted(P, i, oddBool)
                      THEN u16(tombstone_count + 1) ELSE tombstone_count,
                      oddBool)

\* Page::needsCompaction
needsCompaction(P, oddBool) ==
  IF num_of_slots(P) = 0 THEN FALSE
  ELSE tombstoneCount(P, 0, 0, oddBool) > num_of_slots(P) \div 4

\* the bytes a reader finds at count bytes from offset at
readBytes(P, at, count) ==
  [k \in 1 .. count |-> IF at + k - 1 < PAGE_SIZE
                        THEN P.buffer[at + k - 1] ELSE UnknownByte]

\* the bytes of the record of slot slot_num: slot length bytes at getRecord
recordBytes(P, slot_num) ==
  readBytes(P, slotOffset(P, slot_num), slotLength(P, slot_num))

\* the slots getRecord returns a record for
LiveSlots(P, oddBool) ==
  {i \in SlotNums : i < num_of_slots(P) /\ ~isDeleted(P, i, oddBool)}

\* the slots getRecord returns nullptr for
Tombstones(P, oddBool) ==
  {i \in SlotNums : i < num_of_slots(P) /\ isDeleted(P, i, oddBool)}

\* what the last call of the Page was given and what it returned
NoPageReturn ==
  [op |-> "none", ok |-> FALSE, slot_num |-> 0, seed |-> 0, length |-> 0]

(***************************************************************************)
(* History of the Page calls.                                               *)
(*   written[i]  the pattern and length last written to slot i by a         *)
(*               successful insertRecord or updateRecord, for the slots     *)
(*               inserted since the last compaction and not deleted         *)
(***************************************************************************)
NotWritten == [seed |-> 0, length |-> 0]

NoPageHist == [written |-> [i \in SlotNums |-> NotWritten]]

\* one more call, within the budget of the run
Call ==
  /\ calls < MaxCalls
  /\ calls' = calls + 1
  /\ UNCHANGED <<pageVars, threads>>

SetPool(P) ==
  /\ frames' = P.frames
  /\ page_table' = P.page_table
  /\ free_frames' = P.free_frames
  /\ lru_list' = P.lru_list
  /\ lru_iterator' = P.lru_iterator
  /\ db_file' = P.db_file

(***************************************************************************)
(* The state after BufferPoolManager(poolSize, fileName) on a file that     *)
(* does not exist yet (the test fixture removes it first).                  *)
(***************************************************************************)
ConstructedPool(file) ==
  [frames |-> [f \in FrameIds |-> NewFrame],
   page_table |-> << >>,
   free_frames |-> [i \in 1 .. PoolSize |-> i - 1],
   lru_list |-> << >>,
   lru_iterator |-> {},
   db_file |-> [file EXCEPT !.open = TRUE]]

EmptyFile == [open |-> FALSE, size |-> 0, data |-> [p \in PageIds |-> ZeroImage]]

\* the threads that call the pool
Threads == {1, 2}

\* A thread between calls: pc is where the thread is in the body of the
\* call, op, page_id and is_dirty are the call and its arguments, frame and
\* pin_count the values the thread has read into locals and temporaries,
\* handles the (frame, page id) of the Page* it was returned and has not
\* given back with unpinPage.
NoThread ==
  [pc |-> "idle", op |-> "none", page_id |-> INVALID_PAGE_ID,
   is_dirty |-> FALSE, frame |-> INVALID_FRAME_ID, pin_count |-> 0,
   handles |-> << >>]

\* the process has a pool P, pageIdCounter is counter, no call made yet
StartsWith(P, counter) ==
  /\ frames = P.frames
  /\ page_table = P.page_table
  /\ free_frames = P.free_frames
  /\ lru_list = P.lru_list
  /\ lru_iterator = P.lru_iterator
  /\ db_file = P.db_file
  /\ pageIdCounter = counter
  /\ alive = TRUE
  /\ calls = 0
  /\ ret = NoReturn
  /\ hist = NoHist
  /\ slottedPage = EmptyPage
  /\ pageRet = NoPageReturn
  /\ pageHist = NoPageHist
  /\ threads = [t \in Threads |-> NoThread]

Init == StartsWith(ConstructedPool(EmptyFile), 0)

(***************************************************************************)
(* Actions: one per public call.                                            *)
(***************************************************************************)
Returned(op, ok, page_id, hit, evicted) ==
  IF ok THEN [op |-> op, ok |-> TRUE, page_id |-> page_id, hit |-> hit,
              evicted |-> evicted, is_dirty |-> FALSE]
  ELSE [NoReturn EXCEPT !.op = op]

FetchReturns(r, page_id) ==
  /\ SetPool(r.pool)
  /\ ret' = Returned("fetch", r.ok, page_id, r.hit, r.evicted)
  /\ hist' = IF ~r.ok THEN hist
             ELSE IF r.hit THEN AfterHit(hist, r.frame, page_id)
             ELSE AfterInstall(hist, r.pool, r.frame, page_id, FALSE, r.evicted)

FetchPage(page_id) ==
  /\ alive
  /\ Call
  /\ page_id \in DOMAIN page_table => frames[page_table[page_id]].pin_count < MaxPin
  /\ FetchReturns(fetchPage(Pool, page_id), page_id)
  /\ UNCHANGED <<pageIdCounter, alive>>

NewReturns(r) ==
  /\ SetPool(r.pool)
  /\ pageIdCounter' = r.counter
  /\ ret' = Returned("new", r.ok, r.page_id, FALSE, r.evicted)
  /\ hist' = IF ~r.ok THEN hist
             ELSE [AfterInstall(hist, r.pool, r.frame, r.page_id, TRUE,
                                r.evicted)
                     EXCEPT !.newPages = @ + 1,
                            !.maxNewId = Max(@, r.page_id)]

NewPage ==
  /\ alive
  /\ Call
  /\ pageIdCounter \in PageIds
  /\ NewReturns(newPage(Pool, pageIdCounter))
  /\ UNCHANGED alive

UnpinReturns(r, page_id, is_dirty) ==
  /\ SetPool(r.pool)
  /\ ret' = [Returned("unpin", r.ok, page_id, FALSE, INVALID_FRAME_ID)
               EXCEPT !.is_dirty = r.ok /\ is_dirty]
  /\ hist' = IF ~r.ok THEN hist
             ELSE AfterUnpin(hist, page_table[page_id], page_id, is_dirty,
                             frames[page_table[page_id]].page.bytes)

UnpinPage(page_id, is_dirty) ==
  /\ alive
  /\ Call
  /\ UnpinReturns(unpinPage(Pool, page_id, is_dirty), page_id, is_dirty)
  /\ UNCHANGED <<pageIdCounter, alive>>

FlushReturns(r, page_id) ==
  /\ SetPool(r.pool)
  /\ ret' = Returned("flush", r.ok, page_id, FALSE, INVALID_FRAME_ID)
  /\ hist' = AfterFlush(hist, Pool, r.pool)

FlushPage(page_id) ==
  /\ alive
  /\ Call
  /\ FlushReturns(flushPage(Pool, page_id), page_id)
  /\ UNCHANGED <<pageIdCounter, alive>>

DeleteReturns(r, page_id) ==
  /\ SetPool(r.pool)
  /\ ret' = Returned("delete", r.ok, page_id, FALSE, INVALID_FRAME_ID)
  /\ hist' = [hist EXCEPT !.touchOrder = Untouch(@, r.pool)]

DeletePage(page_id) ==
  /\ alive
  /\ Call
  /\ DeleteReturns(deletePage(Pool, page_id), page_id)
  /\ UNCHANGED <<pageIdCounter, alive>>

FlushAllReturns(P) ==
  /\ SetPool(P)
  /\ ret' = Returned("flushAll", TRUE, INVALID_PAGE_ID, FALSE, INVALID_FRAME_ID)
  /\ hist' = AfterFlush(hist, Pool, P)

FlushAllDirtyPages ==
  /\ alive
  /\ Call
  /\ FlushAllReturns(flushAllDirtyPages(Pool))
  /\ UNCHANGED <<pageIdCounter, alive>>

\* The caller changes the bytes of a page through the Page* it got from
\* fetchPage/newPage and has not unpinned yet (page->insertRecord(...)).
WritePage(f, image) ==
  /\ alive
  /\ Call
  /\ f \in InUse(Pool)
  /\ frames[f].pin_count > 0
  /\ frames[f].page.bytes # image
  /\ frames' = [frames EXCEPT ![f].page.bytes = image]
  /\ ret' = Returned("write", TRUE, frames[f].page_id, FALSE, INVALID_FRAME_ID)
  /\ hist' = [hist EXCEPT !.lastDirty[frames[f].page_id] = NoImage]
  /\ UNCHANGED <<page_table, free_frames, lru_list, lru_iterator, db_file,
                 pageIdCounter, alive>>

\* what the pages resident and dirty at destruction hold in memory
DirtyAtDestruction ==
  [p \in PageIds |->
     IF p \in DOMAIN page_table
     THEN IF frames[page_table[p]].is_dirty
          THEN frames[page_table[p]].page.bytes ELSE NoImage
     ELSE NoImage]

DestroyLeaves(P) ==
  /\ frames' = [f \in FrameIds |-> NewFrame]
  /\ page_table' = << >>
  /\ free_frames' = << >>
  /\ lru_list' = << >>
  /\ lru_iterator' = {}
  /\ db_file' = [P.db_file EXCEPT !.open = FALSE]

\* BufferPoolManager::~BufferPoolManager
Destroy ==
  /\ alive
  /\ Call
  /\ DestroyLeaves(flushAllPages(Pool))
  /\ alive' = FALSE
  /\ ret' = Returned("destroy", TRUE, INVALID_PAGE_ID, FALSE, INVALID_FRAME_ID)
  /\ hist' = [NoHist EXCEPT !.persisted = DirtyAtDestruction]
  /\ UNCHANGED pageIdCounter

\* BufferPoolManager::BufferPoolManager over the file the previous pool left
Construct ==
  /\ ~alive
  /\ Call
  /\ SetPool(ConstructedPool(db_file))
  /\ alive' = TRUE
  /\ ret' = Returned("construct", TRUE, INVALID_PAGE_ID, FALSE, INVALID_FRAME_ID)
  /\ UNCHANGED <<pageIdCounter, hist>>

Next ==
  \/ \E p \in PageIds : FetchPage(p)
  \/ NewPage
  \/ \E p \in PageIds, d \in BOOLEAN : UnpinPage(p, d)
  \/ \E p \in PageIds : FlushPage(p)
  \/ \E p \in PageIds : DeletePage(p)
  \/ FlushAllDirtyPages
  \/ \E f \in FrameIds, n \in 1 .. MaxData : WritePage(f, Data(n))

Spec == Init /\ [][Next]_vars

NextReopen ==
  \/ Next
  \/ Destroy
  \/ Construct

SpecReopen == Init /\ [][NextReopen]_vars

(***************************************************************************)
(* A pool constructed in a process whose earlier pools have allocated       *)
(* 65535 pages: pageIdCounter is static and is 0xFFFF (C20's calls, made    *)
(* 65535 times).                                                            *)
(***************************************************************************)
WrapInit == StartsWith(ConstructedPool(EmptyFile), MaxUint16)

WrapSpec == WrapInit /\ [][Next]_vars

(***************************************************************************)
(* A pool constructed with a file name that can be neither opened nor      *)
(* created (a directory that does not exist): both db_file.open calls of   *)
(* the constructor fail and the pool works with a stream that is not open. *)
(***************************************************************************)
UnopenedInit ==
  StartsWith([ConstructedPool(EmptyFile) EXCEPT !.db_file.open = FALSE], 0)

UnopenedSpec == UnopenedInit /\ [][Next]_vars

(***************************************************************************)
(* Two threads calling fetchPage, newPage and unpinPage on one pool.  No   *)
(* member function takes a lock, so the statements of the two calls        *)
(* interleave; a step below is one read or one write of free_frames,       *)
(* page_table, pageIdCounter or a frame field (the frame acquisition with  *)
(* its eviction, and the statements that install a frame, are taken as one *)
(* step each: the interleavings here are some of those the code has).      *)
(* page_table[page_id] is operator[] of std::unordered_map: it inserts     *)
(* frame_id_t() = 0 for a missing key.  A read of the front of an empty    *)
(* list and a pop of an empty list are undefined: the thread goes on with  *)
(* any frame index, or the list stays as it is, or the thread faults.      *)
(* The threads fetch an id that newPage does not hand out within           *)
(* MaxThreadCalls calls, and unpin the pages they have a handle of.        *)
(***************************************************************************)
MaxThreadCalls == 4

\* fetchPage: if (page_table.count(page_id) > 0)
BeginFetch(t, page_id) ==
  /\ alive
  /\ threads[t].pc = "idle"
  /\ calls < MaxThreadCalls
  /\ calls' = calls + 1
  /\ threads' = [threads EXCEPT
       ![t].op = "fetch",
       ![t].page_id = page_id,
       ![t].pc = IF page_id \in DOMAIN page_table THEN "hit" ELSE "acquire"]
  /\ UNCHANGED <<frames, page_table, free_frames, lru_list, lru_iterator,
                 db_file, pageIdCounter, alive, ret, hist, pageVars>>

\* newPage entered (while ids up to MaxPageId are left for the threads
\* that are in newPage and have not yet incremented pageIdCounter)
BeginNew(t) ==
  /\ alive
  /\ threads[t].pc = "idle"
  /\ calls < MaxThreadCalls
  /\ calls' = calls + 1
  /\ pageIdCounter
       + Cardinality({u \in Threads :
                        /\ threads[u].op = "new"
                        /\ threads[u].pc \in {"acquire", "front", "pop",
                                              "counter_read", "counter_write"}})
       <= MaxPageId
  /\ threads' = [threads EXCEPT ![t].op = "new", ![t].pc = "acquire"]
  /\ UNCHANGED <<frames, page_table, free_frames, lru_list, lru_iterator,
                 db_file, pageIdCounter, alive, ret, hist, pageVars>>

\* unpinPage of a page the thread has a handle of:
\* if (page_table.count(page_id) > 0) ... return false
BeginUnpin(t, page_id, is_dirty) ==
  /\ alive
  /\ threads[t].pc = "idle"
  /\ calls < MaxThreadCalls
  /\ calls' = calls + 1
  /\ \E i \in 1 .. Len(threads[t].handles) :
       threads[t].handles[i][2] = page_id
  /\ threads' = [threads EXCEPT
       ![t].op = "unpin",
       ![t].page_id = page_id,
       ![t].is_dirty = is_dirty,
       ![t].pc = IF page_id \in DOMAIN page_table THEN "unpin_read" ELSE "idle"]
  /\ UNCHANGED <<frames, page_table, free_frames, lru_list, lru_iterator,
                 db_file, pageIdCounter, alive, ret, hist, pageVars>>

\* fetchPage, resident: frames[page_table[page_id]].pin_count++, the read
HitRead(t) ==
  /\ threads[t].pc = "hit"
  /\ page_table' = IF threads[t].page_id \in DOMAIN page_table THEN page_table
                   ELSE MapPut(page_table, threads[t].page_id, 0)
  /\ threads' = [threads EXCEPT
       ![t].frame = page_table'[threads[t].page_id],
       ![t].pin_count = frames[page_table'[threads[t].page_id]].pin_count,
       ![t].pc = "hit_write"]
  /\ UNCHANGED <<frames, free_frames, lru_list, lru_iterator, db_file,
                 pageIdCounter, alive, calls, ret, hist, pageVars>>

\* frames[page_table[page_id]].pin_count++, the write
HitWrite(t) ==
  /\ threads[t].pc = "hit_write"
  /\ frames' = [frames EXCEPT
       ![threads[t].frame].pin_count = threads[t].pin_count + 1]
  /\ threads' = [threads EXCEPT ![t].pc = "hit_lru"]
  /\ UNCHANGED <<page_table, free_frames, lru_list, lru_iterator, db_file,
                 pageIdCounter, alive, calls, ret, hist, pageVars>>

\* updateLRU(page_table[page_id]); return &frames[page_table[page_id]].page
HitReturn(t) ==
  /\ threads[t].pc = "hit_lru"
  /\ LET table == IF threads[t].page_id \in DOMAIN page_table THEN page_table
                  ELSE MapPut(page_table, threads[t].page_id, 0)
     IN /\ SetPool(updateLRU([Pool EXCEPT !.page_table = table],
                             table[threads[t].page_id]))
        /\ threads' = [threads EXCEPT ![t] =
             [NoThread EXCEPT !.handles =
                Append(threads[t].handles,
                       <<table[threads[t].page_id], threads[t].page_id>>)]]
  /\ UNCHANGED <<pageIdCounter, alive, calls, ret, hist, pageVars>>

\* if (free_frames.empty() && !evictPage()) return nullptr;
\* if (free_frames.empty()) return nullptr;
Acquire(t) ==
  /\ threads[t].pc = "acquire"
  /\ SetPool(acquireFrame(Pool).pool)
  /\ threads' = [threads EXCEPT ![t] =
       IF acquireFrame(Pool).ok THEN [@ EXCEPT !.pc = "front"]
       ELSE [NoThread EXCEPT !.handles = threads[t].handles]]
  /\ UNCHANGED <<pageIdCounter, alive, calls, ret, hist, pageVars>>

\* frame_id_t availableFrameId = *free_frames.begin();
Front(t) ==
  /\ threads[t].pc = "front"
  /\ \/ /\ free_frames # << >>
        /\ threads' = [threads EXCEPT ![t].frame = Head(free_frames),
                                      ![t].pc = "pop"]
     \/ /\ free_frames = << >>
        /\ \/ \E f \in FrameIds :
                threads' = [threads EXCEPT ![t].frame = f, ![t].pc = "pop"]
           \/ threads' = [threads EXCEPT ![t].pc = "fault"]
  /\ UNCHANGED <<frames, page_table, free_frames, lru_list, lru_iterator,
                 db_file, pageIdCounter, alive, calls, ret, hist, pageVars>>

\* free_frames.pop_front();
Pop(t) ==
  /\ threads[t].pc = "pop"
  /\ free_frames' = IF free_frames # << >> THEN Tail(free_frames)
                    ELSE free_frames
  /\ \/ threads' = [threads EXCEPT ![t].pc =
             IF threads[t].op = "new" THEN "counter_read" ELSE "install"]
     \/ /\ free_frames = << >>
        /\ threads' = [threads EXCEPT ![t].pc = "fault"]
  /\ UNCHANGED <<frames, page_table, lru_list, lru_iterator, db_file,
                 pageIdCounter, alive, calls, ret, hist, pageVars>>

\* *page_id = pageIdCounter++, the read
CounterRead(t) ==
  /\ threads[t].pc = "counter_read"
  /\ threads' = [threads EXCEPT ![t].page_id = pageIdCounter,
                                ![t].pc = "counter_write"]
  /\ UNCHANGED <<frames, page_table, free_frames, lru_list, lru_iterator,
                 db_file, pageIdCounter, alive, calls, ret, hist, pageVars>>

\* *page_id = pageIdCounter++, the write
CounterWrite(t) ==
  /\ threads[t].pc = "counter_write"
  /\ pageIdCounter' = (threads[t].page_id + 1) % PageIdModulus
  /\ threads' = [threads EXCEPT ![t].pc = "install"]
  /\ UNCHANGED <<frames, page_table, free_frames, lru_list, lru_iterator,
                 db_file, alive, calls, ret, hist, pageVars>>

\* the frame is initialised (by fetchPage: read from disk, clean; by
\* newPage: reset, dirty), page_table[page_id] = availableFrameId,
\* updateLRU(availableFrameId), return &frames[availableFrameId].page
Install(t) ==
  /\ threads[t].pc = "install"
  /\ SetPool(updateLRU(
        [Pool EXCEPT
           !.frames[threads[t].frame] =
              [page_id |-> threads[t].page_id,
               page |-> IF threads[t].op = "new"
                        THEN setPageId(resetMemory, threads[t].page_id)
                        ELSE readPageFromDisk(db_file, threads[t].page_id,
                                              frames[threads[t].frame].page),
               pin_count |-> 1,
               is_dirty |-> threads[t].op = "new"],
           !.page_table = MapPut(@, threads[t].page_id, threads[t].frame)],
        threads[t].frame))
  /\ threads' = [threads EXCEPT ![t] =
       [NoThread EXCEPT !.handles =
          Append(threads[t].handles,
                 <<threads[t].frame, threads[t].page_id>>)]]
  /\ UNCHANGED <<pageIdCounter, alive, calls, ret, hist, pageVars>>

\* unpinPage: if (frames[page_table[page_id]].pin_count <= 0) return false;
\* and the read of frames[page_table[page_id]].pin_count--
UnpinRead(t) ==
  /\ threads[t].pc = "unpin_read"
  /\ page_table' = IF threads[t].page_id \in DOMAIN page_table THEN page_table
                   ELSE MapPut(page_table, threads[t].page_id, 0)
  /\ threads' = [threads EXCEPT ![t] =
       IF frames[page_table'[threads[t].page_id]].pin_count <= 0
       THEN [NoThread EXCEPT !.handles = threads[t].handles]
       ELSE [@ EXCEPT
               !.frame = page_table'[threads[t].page_id],
               !.pin_count = frames[page_table'[threads[t].page_id]].pin_count,
               !.pc = "unpin_write"]]
  /\ UNCHANGED <<frames, free_frames, lru_list, lru_iterator, db_file,
                 pageIdCounter, alive, calls, ret, hist, pageVars>>

\* frames[page_table[page_id]].pin_count--, the write;
\* if (is_dirty) frames[page_table[page_id]].is_dirty = is_dirty; return true
\* (the thread gives back the oldest handle it has of the page)
UnpinWrite(t) ==
  /\ threads[t].pc = "unpin_write"
  /\ frames' = [frames EXCEPT
       ![threads[t].frame].pin_count = threads[t].pin_count - 1,
       ![threads[t].frame].is_dirty = IF threads[t].is_dirty THEN TRUE ELSE @]
  /\ LET held == threads[t].handles
         oldest == CHOOSE i \in 1 .. Len(held) :
                     /\ held[i][2] = threads[t].page_id
                     /\ \A k \in 1 .. (i - 1) : held[k][2] # threads[t].page_id
     IN threads' = [threads EXCEPT ![t] =
          [NoThread EXCEPT !.handles =
             SubSeq(held, 1, oldest - 1) \o SubSeq(held, oldest + 1, Len(held))]]
  /\ UNCHANGED <<page_table, free_frames, lru_list, lru_iterator, db_file,
                 pageIdCounter, alive, calls, ret, hist, pageVars>>

ThreadNext ==
  \/ \E t \in Threads : BeginFetch(t, INVALID_PAGE_ID)
  \/ \E t \in Threads : BeginNew(t)
  \/ \E t \in Threads, page_id \in PageIds, is_dirty \in BOOLEAN :
       BeginUnpin(t, page_id, is_dirty)
  \/ \E t \in Threads : HitRead(t)
  \/ \E t \in Threads : HitWrite(t)
  \/ \E t \in Threads : HitReturn(t)
  \/ \E t \in Threads : Acquire(t)
  \/ \E t \in Threads : Front(t)
  \/ \E t \in Threads : Pop(t)
  \/ \E t \in Threads : CounterRead(t)
  \/ \E t \in Threads : CounterWrite(t)
  \/ \E t \in Threads : Install(t)
  \/ \E t \in Threads : UnpinRead(t)
  \/ \E t \in Threads : UnpinWrite(t)

ThreadSpec == Init /\ [][ThreadNext]_vars

(***************************************************************************)
(* Actions on the Page: one per public call.  A call that reads or writes   *)
(* outside the buffer has undefined behaviour: either it runs to its end,   *)
(* leaving in the buffer what it stored there, or the process dies in it.   *)
(* The model follows the process no further in either case.                 *)
(***************************************************************************)
PageCallWithin(budget) ==
  /\ slottedPage.fault = "none"
  /\ calls < budget
  /\ calls' = calls + 1
  /\ UNCHANGED <<poolVars, threads>>

PageCall == PageCallWithin(MaxPageCalls)

PageReturns(op, r, slot_num, seed, length) ==
  \/ /\ slottedPage' = r.page
     /\ pageRet' = [op |-> op, ok |-> r.ok, slot_num |-> slot_num,
                    seed |-> seed, length |-> length]
  \/ /\ r.page.fault = "overrun"
     /\ slottedPage' = [slottedPage EXCEPT !.fault = "crashed"]
     /\ pageRet' = [op |-> op, ok |-> FALSE, slot_num |-> slot_num,
                    seed |-> seed, length |-> length]

InsertReturns(r, seed, length) ==
  /\ PageReturns("insert", r, num_of_slots(slottedPage), seed, length)
  /\ pageHist' = IF r.ok
                 THEN [pageHist EXCEPT !.written[num_of_slots(slottedPage)] =
                                         [seed |-> seed, length |-> length]]
                 ELSE pageHist

InsertCalled(seed, length) ==
  /\ num_of_slots(slottedPage) < MaxSlots
  /\ InsertReturns(insertRecord(slottedPage, seed, length), seed, length)

InsertRecord(seed, length) == PageCall /\ InsertCalled(seed, length)

InsertSmartReturns(r, seed, length) ==
  /\ PageReturns("insertSmart", r, num_of_slots(r.page) - 1, seed, length)
  /\ pageHist' =
       IF ~r.ok THEN pageHist
       ELSE [written |->
               [(IF r.compacted THEN NoPageHist.written ELSE pageHist.written)
                  EXCEPT ![num_of_slots(r.page) - 1] =
                           [seed |-> seed, length |-> length]]]

\* insertRecordSmart sorts slotArray only where it calls compactPage
SmartOrders(r, P, length, oddBool) ==
  IF r.ok \/ u16(length + SizeOfSlot) > getTotalFreeSpace(P, oddBool)
  THEN {<< >>} ELSE SortedOrders(P)

InsertSmartCalled(seed, length) ==
  /\ num_of_slots(slottedPage) < MaxSlots
  /\ \E oddBool, oddBoolSlots \in OddBools(slottedPage) :
       \E order \in SmartOrders(insertRecord(slottedPage, seed, length),
                                slottedPage, length, oddBool) :
         InsertSmartReturns(insertRecordSmart(slottedPage, seed, length,
                                              order, oddBool, oddBoolSlots),
                            seed, length)

InsertRecordSmart(seed, length) == PageCall /\ InsertSmartCalled(seed, length)

DeleteRecordReturns(r, slot_num) ==
  /\ PageReturns("delete", r, slot_num, 0, 0)
  /\ pageHist' = IF r.ok
                 THEN [pageHist EXCEPT !.written[slot_num] = NotWritten]
                 ELSE pageHist

DeleteCalled(slot_num) ==
  \E oddBool \in OddBools(slottedPage) :
    DeleteRecordReturns(deleteRecord(slottedPage, slot_num, oddBool), slot_num)

DeleteRecord(slot_num) == PageCall /\ DeleteCalled(slot_num)

UpdateReturns(r, slot_num, seed, length) ==
  /\ PageReturns("update", r, slot_num, seed, length)
  /\ pageHist' = IF r.ok /\ pageHist.written[slot_num] # NotWritten
                 THEN [pageHist EXCEPT !.written[slot_num] =
                                         [seed |-> seed, length |-> length]]
                 ELSE pageHist

UpdateRecord(slot_num, seed, length) ==
  /\ PageCall
  /\ num_of_slots(slottedPage) < MaxSlots
  /\ \E oddBool \in OddBools(slottedPage) :
       UpdateReturns(updateRecord(slottedPage, slot_num, seed, length,
                                  oddBool),
                     slot_num, seed, length)

CompactCalled ==
  /\ num_of_slots(slottedPage) <= MaxSlots
  /\ \E oddBool, oddBoolSlots \in OddBools(slottedPage) :
       \E order \in SortedOrders(slottedPage) :
         PageReturns("compact",
                     [ok |-> TRUE,
                      page |-> compactPage(slottedPage, order, oddBool,
                                           oddBoolSlots)],
                     0, 0, 0)
  /\ pageHist' = NoPageHist

CompactPage == PageCall /\ CompactCalled

PageNext ==
  \/ \E seed \in Seeds, length \in Lengths : InsertRecord(seed, length)
  \/ \E seed \in Seeds, length \in Lengths : InsertRecordSmart(seed, length)
  \/ \E slot_num \in SlotNums : DeleteRecord(slot_num)
  \/ \E slot_num \in SlotNums, seed \in Seeds, length \in Lengths :
       UpdateRecord(slot_num, seed, length)
  \/ CompactPage

PageSpec == Init /\ [][PageNext]_vars

(***************************************************************************)
(* A caller that fills the page, deletes and compacts, and fills it again   *)
(* (the calls of TEST_F(PageTest, InsertSmartWithCompaction)): fewer        *)
(* records to choose from, more calls in a row.                             *)
(***************************************************************************)
RefillLengths == {1, PAGE_SIZE \div 2}

RefillCall == PageCallWithin(MaxRefillCalls)

RefillInsert(length) == RefillCall /\ InsertCalled(1, length)

RefillInsertSmart(length) == RefillCall /\ InsertSmartCalled(1, length)

RefillDelete(slot_num) == RefillCall /\ DeleteCalled(slot_num)

RefillCompact == RefillCall /\ CompactCalled

RefillNext ==
  \/ \E length \in RefillLengths : RefillInsert(length)
  \/ \E length \in RefillLengths : RefillInsertSmart(length)
  \/ \E slot_num \in SlotNums : RefillDelete(slot_num)
  \/ RefillCompact

RefillSpec == Init /\ [][RefillNext]_vars

(***************************************************************************)
(* Claims about the buffer pool.                                            *)
(***************************************************************************)
\* the step is a call of the pool, not the caller's write through a handle

\* C1: a frame whose pin_count > 0 is not chosen as eviction victim, is not
\* put on the free list and keeps its page id; no call of the pool changes
\* its page bytes (only the holder of the handle does, by writing through it).
C1_PinnedFrameKept ==
  [][\A f \in FrameIds :
       (f \in InUse(Pool) /\ frames[f].pin_count > 0)
       => /\ ret'.evicted # f
          /\ ~SeqContains(free_frames', f)
          /\ SeqContains(lru_list', f)
          /\ frames'[f].page_id = frames[f].page_id
          /\ frames'[f].page.page_id = frames[f].page.page_id
          /\ ret'.op # "write" => frames'[f].page = frames[f].page]_vars

\* C1 witness: a call evicted a frame while another frame, older in the touch
\* order, was pinned and stayed.
C1_Witness ==
  /\ ret.evicted # INVALID_FRAME_ID
  /\ hist.evictSkipped
  /\ \E f \in InUse(Pool) : f # ret.evicted /\ frames[f].pin_count > 0

\* C2: after a successful unpinPage(P, true), every later successful
\* fetchPage(P) returns the bytes P had at that unpin, as long as no handle
\* has modified P since.
C2_NoWriteLost ==
  (ret.op = "fetch" /\ ret.ok /\ hist.lastDirty[ret.page_id] # NoImage)
  => frames[page_table[ret.page_id]].page.bytes = hist.lastDirty[ret.page_id]

\* the frame with pin_count == 0 that was touched least recently
LeastRecentlyTouchedIdle ==
  hist.touchOrder[minIndex({i \in 1 .. Len(hist.touchOrder) :
                              frames[hist.touchOrder[i]].pin_count = 0})]

\* C3: when fetchPage (on a miss) or newPage evicts, the victim is the frame
\* with pin_count == 0 that was least recently touched by a successful
\* fetchPage or newPage; unpinPage is not a touch.
C3_LruVictim ==
  [][ret'.evicted # INVALID_FRAME_ID
     => /\ \E f \in InUse(Pool) : frames[f].pin_count = 0
        /\ ret'.evicted = LeastRecentlyTouchedIdle]_vars

\* C3 witness: an eviction that passed over an older, pinned frame.
C3_Witness ==
  /\ ret.op \in {"fetch", "new"}
  /\ ret.ok
  /\ ret.evicted # INVALID_FRAME_ID
  /\ hist.evictSkipped

\* no free frame, and every frame holds a pinned page
NoFrameAvailable ==
  /\ free_frames = << >>
  /\ \A f \in FrameIds : frames[f].pin_count > 0

\* C4: newPage, and fetchPage of a page that is not resident, return null
\* exactly when the free list is empty and every frame is pinned; a null
\* return leaves the pool, the file and pageIdCounter as they were.
C4_NullIffAllPinned ==
  [][(ret'.op \in {"fetch", "new"} /\ ~(ret'.ok /\ ret'.hit))
     => /\ ~ret'.ok <=> NoFrameAvailable
        /\ ~ret'.ok => UNCHANGED <<frames, page_table, free_frames, lru_list,
                                   lru_iterator, db_file, pageIdCounter>>]_vars

\* C4 witness: a call returned null.
C4_Witness ==
  /\ ret.op \in {"fetch", "new"}
  /\ ~ret.ok
  /\ NoFrameAvailable

\* C5: for every resident page P, the pin_count of the frame page_table maps P
\* to equals the successful fetchPage/newPage calls that returned P minus the
\* successful unpinPage(P, _) calls.
C5_PinAccounting ==
  \A p \in DOMAIN page_table : frames[page_table[p]].pin_count = hist.netPins[p]

\* C6 (as amended): the dirty flag of a frame in use equals the flag it was
\* installed with (true by newPage, false by a fetchPage miss, false again
\* after a flush cleared it) OR-ed with the is_dirty arguments of the
\* successful unpinPage calls since.
C6_StickyDirty ==
  \A f \in InUse(Pool) :
    frames[f].is_dirty = (hist.installedDirty[f] \/ hist.unpinOr[f])

\* C6 witness: a page installed clean, unpinned dirty and then unpinned with
\* is_dirty = false is still dirty.
C6_Witness ==
  /\ ret.op = "unpin" /\ ret.ok /\ ~ret.is_dirty
  /\ ret.page_id \in DOMAIN page_table
  /\ ~hist.installedDirty[page_table[ret.page_id]]
  /\ hist.unpinOr[page_table[ret.page_id]]
  /\ frames[page_table[ret.page_id]].is_dirty

\* C6 (original): once a page has been unpinned, its dirty flag is the OR of
\* the is_dirty arguments of the unpins alone, for pages obtained by newPage
\* as for pages obtained by fetchPage.
C6_DirtyIsOrOfUnpins ==
  \A f \in InUse(Pool) :
    hist.unpinned[f] => frames[f].is_dirty = hist.unpinOr[f]

\* C7: a page that was resident and dirty when the previous pool was
\* destroyed is fetched by the next pool with the bytes it had in memory then.
C7_Persistence ==
  [][(ret'.op = "fetch" /\ ret'.ok /\ ~ret'.hit
      /\ hist.persisted[ret'.page_id] # NoImage)
     => frames'[page_table'[ret'.page_id]].page.bytes
          = hist.persisted[ret'.page_id]]_vars

(***************************************************************************)
(* Claims about the slotted page.                                           *)
(***************************************************************************)
\* the records of the slots that are not tombstones, as a multiset: each
\* byte string with the number of live slots holding it
LiveRecords(P, oddBool) ==
  [r \in {recordBytes(P, i) : i \in LiveSlots(P, oddBool)} |->
     Cardinality({i \in LiveSlots(P, oddBool) : recordBytes(P, i) = r})]

\* C8: compactPage leaves the multiset of the byte strings of the slots that
\* are not tombstones as it was, and leaves no tombstone among the slots
\* below num_of_slots.
C8_CompactionPreservesRecords ==
  [][(pageRet'.op = "compact" /\ slottedPage'.fault = "none")
     => \A oddBool \in BOOLEAN :
          /\ LiveRecords(slottedPage', oddBool) = LiveRecords(slottedPage, oddBool)
          /\ Tombstones(slottedPage', oddBool) = {}]_vars

\* the first bytes of the record getRecord(slot_num) points to are the bytes
\* last written to the slot
HoldsLastWritten(P, slot_num, w, oddBool) ==
  /\ getRecord(P, slot_num, oddBool) # -1
  /\ \A k \in 0 .. (w.length - 1) :
       /\ getRecord(P, slot_num, oddBool) + k < PAGE_SIZE
       /\ P.buffer[getRecord(P, slot_num, oddBool) + k] = dataByte(w.seed, k)

\* C9: a slot created by a successful insertRecord keeps its index: after any
\* later inserts, deletes of other slots and updates, getRecord of the slot
\* returns the bytes last written to it, until the slot itself is deleted.
C9_SlotIndexStable ==
  slottedPage.fault # "crashed"
  => \A i \in SlotNums :
       (pageHist.written[i] # NotWritten
        /\ pageHist.written[i].length <= PAGE_SIZE)
       => \A oddBool \in BOOLEAN :
            HoldsLastWritten(slottedPage, i, pageHist.written[i], oddBool)

\* C10: after any sequence of calls, sizeof(PageHeader) <= free_space_start
\* <= free_space_end <= PAGE_SIZE, and every slot that is not a tombstone has
\* free_space_end <= offset and offset + length <= PAGE_SIZE.
C10_PageBounds ==
  slottedPage.fault # "crashed"
  => /\ SizeOfPageHeader <= free_space_start(slottedPage)
     /\ free_space_start(slottedPage) <= free_space_end(slottedPage)
     /\ free_space_end(slottedPage) <= PAGE_SIZE
     /\ \A oddBool \in BOOLEAN :
          \A i \in LiveSlots(slottedPage, oddBool) :
            /\ free_space_end(slottedPage) <= slotOffset(slottedPage, i)
            /\ slotOffset(slottedPage, i) + slotLength(slottedPage, i)
                 <= PAGE_SIZE

\* C11: after any sequence of insertRecord, updateRecord (the grow path that
\* appends a tombstone slot included), deleteRecord and compactPage,
\* free_space_start == sizeof(PageHeader) + num_of_slots * sizeof(Slot).
C11_HeaderConsistent ==
  slottedPage.fault = "none"
  => free_space_start(slottedPage)
       = SizeOfPageHeader + num_of_slots(slottedPage) * SizeOfSlot

\* the byte ranges of two slots have a byte in common
Overlap(P, i, j) ==
  /\ slotLength(P, i) > 0
  /\ slotLength(P, j) > 0
  /\ slotOffset(P, i) < slotOffset(P, j) + slotLength(P, j)
  /\ slotOffset(P, j) < slotOffset(P, i) + slotLength(P, i)

\* C12: after any sequence of insertRecord, updateRecord, deleteRecord and
\* compactPage, the byte ranges [offset, offset + length) of two distinct
\* slots that are not tombstones are disjoint.
C12_RecordsDisjoint ==
  slottedPage.fault = "none"
  => \A oddBool \in BOOLEAN :
       \A i, j \in LiveSlots(slottedPage, oddBool) :
         i # j => ~Overlap(slottedPage, i, j)

RECURSIVE SumOfLengths(_, _)
\* the sum of the lengths of the slots in S
SumOfLengths(P, S) ==
  IF S = {} THEN 0
  ELSE slotLength(P, CHOOSE i \in S : TRUE)
         + SumOfLengths(P, S \ {CHOOSE i \in S : TRUE})

\* total free space as the specification defines it: the contiguous free
\* bytes plus the lengths of the tombstoned slots
TotalFreeSpace(P, oddBool) ==
  (free_space_end(P) - free_space_start(P))
    + SumOfLengths(P, Tombstones(P, oddBool))

\* C13: insertRecordSmart(d, l) succeeds if and only if
\* l + sizeof(Slot) <= total free space, the contiguous free bytes
\* (free_space_end - free_space_start) plus the lengths of the tombstones.
C13_InsertSmartLaw ==
  [][(pageRet'.op = "insertSmart" /\ slottedPage'.fault = "none")
     => \A oddBool \in OddBools(slottedPage) :
          pageRet'.ok <=> (pageRet'.length + SizeOfSlot
                             <= TotalFreeSpace(slottedPage, oddBool))]_vars

\* the record and one more slot entry do not fit, over the integers
DoesNotFit(P, length) ==
  SizeOfPageHeader + (num_of_slots(P) + 1) * SizeOfSlot
    >= free_space_end(P) - length

\* C14: for every length in 0 .. 65535, lengths larger than free_space_end
\* included, insertRecord returns false and leaves the page unchanged
\* whenever sizeof(PageHeader) + (num_of_slots + 1) * sizeof(Slot)
\* >= free_space_end - length.
C14_InsertRejectsWhatDoesNotFit ==
  [][(pageRet'.op = "insert" /\ DoesNotFit(slottedPage, pageRet'.length))
     => /\ ~pageRet'.ok
        /\ slottedPage' = slottedPage]_vars

\* C15: whenever insertRecord returns true the new record is live: it is at
\* the slot index that was num_of_slots, its isDeleted is false, getRecord of
\* the index returns the inserted bytes and getNumberOfRecords has grown by
\* one.
C15_InsertedRecordIsLive ==
  [][(pageRet'.op = "insert" /\ pageRet'.ok /\ slottedPage'.fault = "none")
     => /\ pageRet'.slot_num = num_of_slots(slottedPage)
        /\ num_of_slots(slottedPage') = num_of_slots(slottedPage) + 1
        /\ \A oddBool \in BOOLEAN :
             /\ ~isDeleted(slottedPage', pageRet'.slot_num, oddBool)
             /\ HoldsLastWritten(slottedPage', pageRet'.slot_num,
                                 [seed |-> pageRet'.seed,
                                  length |-> pageRet'.length], oddBool)
             /\ getNumberOfRecords(slottedPage', oddBool)
                  = getNumberOfRecords(slottedPage, oddBool) + 1]_vars

\* slot slot_num of P holds a record shorter than length
Grows(P, slot_num, length, oddBool) ==
  /\ slot_num \in LiveSlots(P, oddBool)
  /\ length > slotLength(P, slot_num)

\* C16: updateRecord(i, data, n) on a live slot i with n greater than the
\* slot's length either returns true, and then getRecord(i) returns the new
\* bytes at the same index, getNumberOfRecords is unchanged, every other live
\* slot still returns its bytes and one tombstone with the old offset and
\* length has been appended at the previous num_of_slots; or, when
\* sizeof(PageHeader) + (num_of_slots + 1) * sizeof(Slot)
\* >= free_space_end - n, returns false and leaves the page unchanged.
C16_GrowUpdate ==
  [][\A oddBool \in OddBools(slottedPage) :
       (/\ pageRet'.op = "update"
        /\ Grows(slottedPage, pageRet'.slot_num, pageRet'.length, oddBool))
       => /\ DoesNotFit(slottedPage, pageRet'.length)
               => (~pageRet'.ok /\ slottedPage' = slottedPage)
          /\ pageRet'.ok
               => /\ HoldsLastWritten(slottedPage', pageRet'.slot_num,
                                      [seed |-> pageRet'.seed,
                                       length |-> pageRet'.length], oddBool)
                  /\ slotLength(slottedPage', pageRet'.slot_num)
                       = pageRet'.length
                  /\ getNumberOfRecords(slottedPage', oddBool)
                       = getNumberOfRecords(slottedPage, oddBool)
                  /\ \A j \in LiveSlots(slottedPage, oddBool) \ {pageRet'.slot_num} :
                       /\ j \in LiveSlots(slottedPage', oddBool)
                       /\ recordBytes(slottedPage', j) = recordBytes(slottedPage, j)
                  /\ num_of_slots(slottedPage') = num_of_slots(slottedPage) + 1
                  /\ isDeleted(slottedPage', num_of_slots(slottedPage), oddBool)
                  /\ slotOffset(slottedPage', num_of_slots(slottedPage))
                       = slotOffset(slottedPage, pageRet'.slot_num)
                  /\ slotLength(slottedPage', num_of_slots(slottedPage))
                       = slotLength(slottedPage, pageRet'.slot_num)]_vars

\* C17: deleteRecord(i) returns false and changes nothing when
\* i >= num_of_slots or slot i is a tombstone already; on success it sets the
\* tombstone flag of slot i and nothing else: the header, the record bytes
\* and every other slot are unchanged, getRecord(i) becomes null and
\* getNumberOfRecords drops by one.
C17_DeleteRecord ==
  [][pageRet'.op = "delete"
     => \E oddBool \in OddBools(slottedPage) :
          IF pageRet'.slot_num \in LiveSlots(slottedPage, oddBool)
          THEN /\ pageRet'.ok
               /\ \A o \in Offsets :
                    o # getSlot(pageRet'.slot_num) + 4
                    => slottedPage'.buffer[o] = slottedPage.buffer[o]
               /\ \A any \in BOOLEAN :
                    getRecord(slottedPage', pageRet'.slot_num, any) = -1
               /\ getNumberOfRecords(slottedPage', oddBool)
                    = getNumberOfRecords(slottedPage, oddBool) - 1
          ELSE /\ ~pageRet'.ok
               /\ slottedPage' = slottedPage]_vars

\* C17 witness: a second deleteRecord of a slot that a deleteRecord had made
\* a tombstone has returned false.
C17_Witness ==
  /\ pageRet.op = "delete"
  /\ ~pageRet.ok
  /\ pageRet.slot_num < num_of_slots(slottedPage)
  /\ deletedByte(slottedPage, pageRet.slot_num) = 1
  /\ pageHist.written[pageRet.slot_num] = NotWritten
  /\ slottedPage.fault = "none"

\* C18: compactPage does not change the slot index of a surviving record:
\* for every slot i that is live before compactPage, getRecord(i) after it
\* returns the same bytes as before.
C18_CompactionKeepsIndices ==
  [][(pageRet'.op = "compact" /\ slottedPage'.fault = "none")
     => \A oddBool \in BOOLEAN :
          \A i \in LiveSlots(slottedPage, oddBool) :
            /\ getRecord(slottedPage', i, oddBool) # -1
            /\ recordBytes(slottedPage', i) = recordBytes(slottedPage, i)]_vars

\* C19: needsCompaction returns true exactly when num_of_slots > 0 and the
\* number of tombstoned slots is greater than num_of_slots / 4 (integer
\* division); right after compactPage, on any page, it returns false.
C19_NeedsCompaction ==
  [][/\ \A oddBool \in BOOLEAN :
          needsCompaction(slottedPage', oddBool)
            <=> /\ num_of_slots(slottedPage') > 0
                /\ Cardinality(Tombstones(slottedPage', oddBool))
                     > num_of_slots(slottedPage') \div 4
     /\ (pageRet'.op = "compact" /\ slottedPage'.fault = "none")
          => \A oddBool \in OddBools(slottedPage') :
               ~needsCompaction(slottedPage', oddBool)]_vars

\* C20: on a newly constructed pool the first successful newPage returns
\* page id 0 and sets the page's own id to 0, and the i-th successful newPage
\* of the pool returns id i, whatever pools were constructed, used or
\* destroyed earlier in the process.
C20_NewPageIdsFromZero ==
  (ret.op = "new" /\ ret.ok)
  => /\ ret.page_id = hist.newPages - 1
     /\ \E f \in InUse(Pool) :
          /\ frames[f].page_id = ret.page_id
          /\ frames[f].page.page_id = ret.page_id

\* C21: the page ids newPage hands out are fresh, the 16-bit counter
\* wrapping modulo 2^16: the id returned is greater than every id returned
\* before, hence equal to none of them, and is never INVALID_PAGE_ID.
C21_FreshPageIds ==
  [][(ret'.op = "new" /\ ret'.ok)
     => /\ ret'.page_id # INVALID_PAGE_ID
        /\ ret'.page_id > hist.maxNewId]_vars

\* C22: unpinPage(P, d) returns false and leaves the pool as it was, dirty
\* flag included even when d is true, when P is not resident or the frame's
\* pin_count is 0; otherwise it decrements pin_count by one and returns
\* true.  So pin_count >= 0 for every frame in every reachable state.
C22_UnpinPage ==
  [][/\ \A page_id \in PageIds, is_dirty \in BOOLEAN :
          UnpinPage(page_id, is_dirty)
          => IF /\ page_id \in DOMAIN page_table
                /\ frames[page_table[page_id]].pin_count > 0
             THEN /\ ret'.ok
                  /\ frames'[page_table[page_id]].pin_count
                       = frames[page_table[page_id]].pin_count - 1
                  /\ \A f \in FrameIds \ {page_table[page_id]} :
                       frames'[f] = frames[f]
                  /\ UNCHANGED <<page_table, free_frames, lru_list,
                                 lru_iterator, db_file, pageIdCounter>>
             ELSE /\ ~ret'.ok
                  /\ UNCHANGED <<frames, page_table, free_frames, lru_list,
                                 lru_iterator, db_file, pageIdCounter>>
     /\ \A f \in FrameIds : frames'[f].pin_count >= 0]_vars

\* C22 witness: an unpinPage has returned false while no resident page was
\* pinned, and a resident page that is clean is there.
C22_Witness ==
  /\ ret.op = "unpin"
  /\ ~ret.ok
  /\ DOMAIN page_table # {}
  /\ \A p \in DOMAIN page_table : frames[page_table[p]].pin_count = 0
  /\ \E p \in DOMAIN page_table : ~frames[page_table[p]].is_dirty

\* the bytes a read of page_id from the file gives
OnDisk(file, page_id) == readPageFromDisk(file, page_id, resetMemory).bytes

C24_FlushFrameEffect ==
  [][ret'.op \in {"flush", "flushAll"}
     => /\ \A f \in FrameIds :
             frames'[f] = [frames[f] EXCEPT !.is_dirty = frames'[f].is_dirty]
        /\ UNCHANGED <<page_table, free_frames, lru_list, lru_iterator,
                       pageIdCounter>>]_vars

\* C24 witness: flushAllDirtyPages has written the bytes of a page that is
\* still pinned, with two frames in the LRU list.
C24_Witness ==
  /\ ret.op = "flushAll"
  /\ Len(lru_list) = 2
  /\ \E f \in InUse(Pool) :
       /\ frames[f].pin_count > 0
       /\ frames[f].page_id # INVALID_PAGE_ID
       /\ frames[f].page.bytes = Data(1)
       /\ OnDisk(db_file, frames[f].page_id) = Data(1)

\* a frame in the free state: no page id, no pin, not dirty
FreeState(frame) ==
  /\ frame.page_id = INVALID_PAGE_ID
  /\ frame.pin_count = 0
  /\ ~frame.is_dirty

\* C25: deletePage(P) returns false when P is not resident.  When P is
\* resident with pin_count = 0 it returns true and afterwards P is not in
\* the page table, its frame is in free_frames in the free state and in
\* neither lru_list nor lru_iterator, every other frame is as it was, and if
\* the frame was dirty its bytes are on disk, so that the fetchPage(P) that
\* follows is a miss reading the contents P had when it was deleted.
C25_DeletePage ==
  [][\A page_id \in PageIds :
       DeletePage(page_id)
       => IF page_id \notin DOMAIN page_table
          THEN ~ret'.ok
          ELSE frames[page_table[page_id]].pin_count = 0
               => /\ ret'.ok
                  /\ page_id \notin DOMAIN page_table'
                  /\ SeqContains(free_frames', page_table[page_id])
                  /\ FreeState(frames'[page_table[page_id]])
                  /\ ~SeqContains(lru_list', page_table[page_id])
                  /\ page_table[page_id] \notin lru_iterator'
                  /\ \A f \in FrameIds \ {page_table[page_id]} :
                       frames'[f] = frames[f]
                  /\ frames[page_table[page_id]].is_dirty
                     => /\ OnDisk(db_file', page_id)
                           = frames[page_table[page_id]].page.bytes
                        /\ fetchPage(Pool, page_id).ok'
                        /\ ~fetchPage(Pool, page_id).hit'
                        /\ fetchPage(Pool, page_id).pool.frames'
                             [fetchPage(Pool, page_id).frame'].page.bytes
                           = frames[page_table[page_id]].page.bytes]_vars

\* C25 witness: deletePage has returned true for a page whose bytes, written
\* by a caller, are on disk and which is resident no more.
C25_Witness ==
  /\ ret.op = "delete"
  /\ ret.ok
  /\ ret.page_id \notin DOMAIN page_table
  /\ OnDisk(db_file, ret.page_id) = Data(1)
  /\ \E i \in 1 .. Len(free_frames) : frames[free_frames[i]].page.bytes = Data(1)

\* C26: after flushAllDirtyPages, the file being open, no resident frame is
\* dirty, and the bytes on disk of every page that was resident and dirty
\* before the call are its bytes in memory, whichever of the ids of the
\* uint16_t range the frame holds.
C26_FlushAllDirtyPages ==
  [][FlushAllDirtyPages /\ db_file.open
     => \A page_id \in DOMAIN page_table :
          /\ ~frames'[page_table[page_id]].is_dirty
          /\ frames[page_table[page_id]].is_dirty
             => OnDisk(db_file', page_id)
                = frames'[page_table[page_id]].page.bytes]_vars

\* C27: fetchPage(id) of an id never written, a frame being available,
\* returns a page in the empty state (no record, num_of_slots = 0,
\* free_space_start = sizeof(PageHeader), free_space_end = PAGE_SIZE) whose
\* page id is id, both when id lies beyond the end of the file and when it
\* lies in a hole below a page written before.  (A place of the file no
\* write has reached holds ZeroImage: callers write Data images only.)
C27_FetchNeverWritten ==
  [][\A page_id \in PageIds :
       (/\ FetchPage(page_id)
        /\ page_id \notin DOMAIN page_table
        /\ db_file.data[page_id] = ZeroImage
        /\ ret'.ok)
       => frames'[page_table'[page_id]].page
            = setPageId(resetMemory, page_id)]_vars

\* C28: a fetchPage that finds the page resident returns the frame the
\* earlier handles to the page point to (the pinned frames that hold the
\* page are the frames of the handles not yet given back), without reading
\* the disk, so what
\* was written through them is there, flushed or not; it increments
\* pin_count by one, moves the frame to the tail of the LRU list and leaves
\* the dirty flag as it was.  A fetchPage that misses installs the page with
\* pin_count = 1 and is_dirty = false.
C28_FetchHitAndMiss ==
  [][\A page_id \in PageIds :
       (FetchPage(page_id) /\ ret'.ok)
       => IF page_id \in DOMAIN page_table
          THEN /\ ret'.hit
               /\ \A f \in Holding(page_id) :
                    frames[f].pin_count > 0 => f = page_table[page_id]
               /\ frames'[page_table[page_id]].page
                    = frames[page_table[page_id]].page
               /\ db_file' = db_file
               /\ frames'[page_table[page_id]].pin_count
                    = frames[page_table[page_id]].pin_count + 1
               /\ lru_list'[Len(lru_list')] = page_table[page_id]
               /\ frames'[page_table[page_id]].is_dirty
                    = frames[page_table[page_id]].is_dirty
          ELSE /\ ~ret'.hit
               /\ frames'[page_table'[page_id]].pin_count = 1
               /\ ~frames'[page_table'[page_id]].is_dirty]_vars

\* C29: a disk write that fails clears no dirty flag: flushPage of a dirty
\* page returns false and leaves the frame dirty, and flushAllDirtyPages
\* leaves dirty every frame whose write failed.
C29_FailedWriteKeepsDirty ==
  [][~writeSucceeds(db_file)
     => /\ \A page_id \in DOMAIN page_table :
             (FlushPage(page_id) /\ frames[page_table[page_id]].is_dirty)
             => ~ret'.ok /\ frames'[page_table[page_id]].is_dirty
        /\ FlushAllDirtyPages
           => \A f \in FrameIds : frames[f].is_dirty => frames'[f].is_dirty]_vars

\* C30: after any calls of the pool, fetchPage of ids newPage has not yet
\* allocated among them, every entry (P, f) of the page table has
\* frames[f].page_id = P, and no two frames outside the free list hold the
\* same page id: a page is resident in at most one frame.
C30_PageTableConsistent ==
  /\ \A page_id \in DOMAIN page_table :
       frames[page_table[page_id]].page_id = page_id
  /\ \A f \in InUse(Pool), g \in InUse(Pool) :
       frames[f].page_id = frames[g].page_id => f = g

\* C31: between the public operations every frame index is in exactly one
\* of two conditions: once in free_frames and nowhere else, or the target of
\* exactly one page table entry and once in lru_list, with an entry of
\* lru_iterator for it.  Hence |free_frames| + |page_table| = pool_size.
C31_FrameAccounting ==
  LET Occurrences(seq, f) == Cardinality({i \in 1 .. Len(seq) : seq[i] = f})
      EntriesOf(f) == {page_id \in DOMAIN page_table : page_table[page_id] = f}
  IN /\ \A f \in FrameIds :
          \/ /\ Occurrences(free_frames, f) = 1
             /\ EntriesOf(f) = {}
             /\ Occurrences(lru_list, f) = 0
             /\ f \notin lru_iterator
          \/ /\ Occurrences(free_frames, f) = 0
             /\ Cardinality(EntriesOf(f)) = 1
             /\ Occurrences(lru_list, f) = 1
             /\ f \in lru_iterator
     /\ Len(free_frames) + Cardinality(DOMAIN page_table) = PoolSize

\* C32: between the public operations every frame listed in free_frames has
\* page_id = INVALID_PAGE_ID, pin_count = 0 and is_dirty = false, after
\* construction and after frames have come back by eviction or deletePage.
C32_FreeFramesFree ==
  \A i \in 1 .. Len(free_frames) : FreeState(frames[free_frames[i]])

\* C32 witness: deletePage has put on the free list a frame that held a
\* page written by a caller, while another frame is in use and dirty.
C32_Witness ==
  /\ ret.op = "delete"
  /\ ret.ok
  /\ \E i \in 1 .. Len(free_frames) :
       /\ frames[free_frames[i]].page.page_id # INVALID_PAGE_ID
       /\ frames[free_frames[i]].page.bytes = Data(1)
  /\ \E f \in InUse(Pool) : frames[f].is_dirty

\* C33: compactPage packs the heap: afterwards free_space_end is PAGE_SIZE
\* less the sum of the lengths of the live slots (PAGE_SIZE if there is
\* none), and when a tombstone was there before the call the gap
\* free_space_end - free_space_start is strictly larger than before.
C33_CompactionPacks ==
  [][(pageRet'.op = "compact" /\ slottedPage'.fault = "none")
     => \A oddBool \in OddBools(slottedPage) :
          /\ free_space_end(slottedPage')
               = PAGE_SIZE - SumOfLengths(slottedPage,
                                          LiveSlots(slottedPage, oddBool))
          /\ Tombstones(slottedPage, oddBool) # {}
             => free_space_end(slottedPage') - free_space_start(slottedPage')
                > free_space_end(slottedPage)
                    - free_space_start(slottedPage)]_vars

\* C34: two threads call fetchPage, newPage and unpinPage on one pool with
\* no lock of their own, their reads and writes interleaved: no frame is
\* handed out for two different page ids, no frame is on the free list and
\* in the page table at once, and no pin_count update is lost: while no
\* thread is inside a call the pin_count of a frame in use is the number of
\* handles to it that the threads hold.
C34_ConcurrentAccess ==
  LET HandlesOn(f) ==
        {h \in Threads \X (1 .. MaxThreadCalls) :
           /\ h[2] <= Len(threads[h[1]].handles)
           /\ threads[h[1]].handles[h[2]][1] = f}
  IN /\ \A f \in FrameIds :
          \A h \in HandlesOn(f), k \in HandlesOn(f) :
            threads[h[1]].handles[h[2]][2] = threads[k[1]].handles[k[2]][2]
     /\ \A f \in FrameIds :
          ~(/\ SeqContains(free_frames, f)
            /\ \E page_id \in DOMAIN page_table : page_table[page_id] = f)
     /\ (\A t \in Threads : threads[t].pc = "idle")
        => \A f \in InUse(Pool) :
             frames[f].pin_count = Cardinality(HandlesOn(f))

====
